---- MODULE Spec2Model ----
(***************************************************************************)
(* A model of nodes/interface.py of ardrone_autopilot: the Messages        *)
(* aggregator (named map, anonymous queue, one lock), the retained frame   *)
(* slot of UInode with its own lock, the redraw tick, the /ui/message      *)
(* parser and the keyboard dispatch table.                                 *)
(*                                                                         *)
(* Texts are sequences of one-character strings, so that the regular       *)
(* expression of on_ui_request and the '%s: %s' formatting of render are   *)
(* computed character by character.  Time is rospy.get_time() in whole     *)
(* seconds.  Every Python statement that takes or releases a lock, or that *)
(* reads or writes shared state, is one step of the thread running it.     *)
(***************************************************************************)
EXTENDS Integers, Sequences, FiniteSets, TLC

VARIABLES
    pc,                   \* thread -> the statement it is at
    lock,                 \* Messages.lock: the thread holding it, or NoThread
    image_lock,           \* UInode.image_lock: the thread holding it, or NoThread
    messages_named,       \* Messages.messages_named: name -> message
    messages_queue,       \* Messages.messages_queue: <<text, time>>, oldest first
    now,                  \* rospy.get_time()
    batch,                \* thread -> the `messages` argument of its messages_put
    idx,                  \* thread -> position of its messages_put loop in batch
    checked_at,           \* the time clean_queue read in its latest loop test (0 outside it)
    image,                \* UInode.image
    new_image,            \* on_video_update's local `image`
    communication_since_timer, \* UInode.communication_since_timer
    swap_red_blue,        \* UInode.swap_red_blue (~swap_red_blue)
    is_online,            \* controller.is_online
    pixmap,               \* on_redraw's local `image` (NoPixmap outside it)
    drawn,                \* the drawText calls of the running render: [x, y, text]
    image_box,            \* the pixmap image_box shows
    request,              \* message.data of the latest on_ui_request
    requests,             \* number of on_ui_request calls so far
    keylog,               \* key events handled: the event and the calls it made
    layout,               \* render's named loop, entry by entry, over a structure
    last_put,             \* history: name -> message of the latest completed put
    appended,             \* history: every <<text, time>> appended to the queue
    published,            \* history: the frames whose on_video_update completed
    last_tick,            \* history: what the latest rd_pick saw and chose
    prev_tick             \* history: the same for the tick before

vars == <<pc, lock, image_lock, messages_named, messages_queue, now, batch, idx,
          checked_at, image, new_image, communication_since_timer, swap_red_blue,
          is_online, pixmap, drawn, image_box, request, requests, keylog, last_put,
          appended, published, last_tick, prev_tick, layout>>

msgVars == <<messages_named, messages_queue, batch, idx, checked_at, last_put,
             appended, lock>>
slotVars == <<image, new_image, communication_since_timer, published,
              swap_red_blue>>
frameVars == <<slotVars, image_lock>>
tickVars == <<pixmap, drawn, image_box, last_tick, prev_tick>>
inputVars == <<request, requests, keylog, layout>>

----------------------------------------------------------------------------
(* Bounds of the model *)

MaxTime == 2          \* the clock runs 0..MaxTime
MaxAnon == 2          \* anonymous messages appended in one behaviour
MaxBatch == 2         \* entries of one producer messages_put call
MaxFrames == 2        \* frames published in one behaviour
MaxLen == 4           \* characters of one /ui/message text
MaxRequests == 1      \* /ui/message texts handled in one behaviour
MaxEvents == 2        \* key events handled in one behaviour
DisplaySeconds == 1   \* ~message_display_time, in whole seconds
MaxEntries == 3       \* entries of a message structure laid out on its own

----------------------------------------------------------------------------
(* Values *)

Threads == {"ui", "prod", "msg", "video"}
NoThread == "none"

\* Python's None, where a text (a sequence of characters) may stand as well.
None == <<"None">>

\* The default of messages_named.get(name, '-') and the text shown for None.
Dash == <<"-">>

drone_status == <<"d", "r", "o", "n", "e", ".", "s", "t", "a", "t", "u", "s">>
drone_battery == <<"d", "r", "o", "n", "e", ".", "b", "a", "t", "t", "e", "r", "y">>
tgt_x == <<"t", "g", "t", ".", "x">>
tgt_y == <<"t", "g", "t", ".", "y">>
tgt_z == <<"t", "g", "t", ".", "z">>

\* An entry of the message structure: None, one name, or a list of names.
Blank == [kind |-> "none", names |-> <<>>]
One(name) == [kind |-> "name", names |-> <<name>>]
Group(names) == [kind |-> "list", names |-> names]

grid == <<One(drone_status), Blank, One(drone_battery), Blank,
          Group(<<tgt_x, tgt_y, tgt_z>>)>>

message_display_time == 1000 * DisplaySeconds

column_width == 250

NoImage == [id |-> 0, swapped |-> FALSE, width |-> 0, height |-> 0]
NoPixmap == [kind |-> "none", id |-> 0, width |-> 0, height |-> 0]
Placeholder == [kind |-> "placeholder", id |-> 0, width |-> 640, height |-> 360]
FromImage(img) ==
    [kind |-> "frame", id |-> img.id, width |-> img.width, height |-> img.height]

NoTick == [online |-> FALSE, frame |-> 0, used |-> "none"]

\* Inputs of the model
PutMessages == {<<"1">>, <<"2">>}      \* messages put under a name
PutNames == {tgt_x}
AnonMessages == {<<"1">>}              \* messages put without a name
StatusTexts == {<<"o", "k">>}          \* controller.status.readable()
BatteryValues == {None}                \* controller.battery
FrameSizes == {<<320, 240>>}
Chars == {"a", ":", "\n"}

RECURSIVE SeqsUpTo(_, _)
SeqsUpTo(S, n) ==
    IF n = 0 THEN {<<>>}
    ELSE LET shorter == SeqsUpTo(S, n - 1)
         IN shorter \cup {Append(s, e) : s \in shorter, e \in S}

Entries == {<<m, n>> : m \in PutMessages, n \in PutNames}
              \cup {<<m, None>> : m \in AnonMessages}
Batches == SeqsUpTo(Entries, MaxBatch) \ {<<>>}

AnonCount(b) == Cardinality({i \in DOMAIN b : b[i][2] = None})

Last(s) == s[Len(s)]

----------------------------------------------------------------------------
(* Messages.messages_put, lines 93-100; message_put, lines 102-104 *)

\* Mutant of SetNamed: the first message of a name is kept (setdefault).
SetNamedKeep(named, name, message) ==
    [n \in DOMAIN named \cup {name} |->
        IF n \in DOMAIN named THEN named[n] ELSE message]

\* self.messages_named[name] = message
SetNamed(named, name, message) ==
    [n \in DOMAIN named \cup {name} |-> IF n = name THEN message ELSE named[n]]

\* The message of the last entry of batch b that carries name n.
LastFor(b, n) ==
    LET hits == {i \in DOMAIN b : b[i][2] = n}
    IN b[CHOOSE i \in hits : \A j \in hits : j <= i][1]

\* Mutant of MpLock: the loop is entered without waiting for the lock.
MpLockNoWait(t) ==
    /\ pc[t] = "mp_lock"
    /\ lock' = t
    /\ idx' = [idx EXCEPT ![t] = 1]
    /\ pc' = [pc EXCEPT ![t] = "mp_loop"]
    /\ UNCHANGED <<messages_named, messages_queue, batch, checked_at, last_put,
                   appended, now, frameVars, is_online, tickVars, inputVars>>

\* with self.lock: (entry)
MpLock(t) ==
    /\ pc[t] = "mp_lock"
    /\ lock = NoThread
    /\ lock' = t
    /\ idx' = [idx EXCEPT ![t] = 1]
    /\ pc' = [pc EXCEPT ![t] = "mp_loop"]
    /\ UNCHANGED <<messages_named, messages_queue, batch, checked_at, last_put,
                   appended, now, frameVars, is_online, tickVars, inputVars>>

\* A deque that takes new entries at its left end (appendleft).
EnqueueLeft(queue, entry) == <<entry>> \o queue

\* self.messages_queue.append(entry)
Enqueue(queue, entry) == Append(queue, entry)

\* One pass of `for message, name in messages`, or the end of the loop.
MpLoop(t) ==
    /\ pc[t] = "mp_loop"
    /\ IF idx[t] <= Len(batch[t])
       THEN LET message == batch[t][idx[t]][1]
                name == batch[t][idx[t]][2]
            IN /\ IF name = None
                  THEN /\ messages_queue' = Enqueue(messages_queue, <<message, now>>)
                       /\ appended' = Append(appended, <<message, now>>)
                       /\ UNCHANGED messages_named
                  ELSE /\ messages_named' = SetNamed(messages_named, name, message)
                       /\ UNCHANGED <<messages_queue, appended>>
               /\ idx' = [idx EXCEPT ![t] = idx[t] + 1]
               /\ UNCHANGED pc
       ELSE /\ pc' = [pc EXCEPT ![t] = "mp_unlock"]
            /\ UNCHANGED <<messages_named, messages_queue, appended, idx>>
    /\ UNCHANGED <<lock, batch, checked_at, last_put, now, frameVars, is_online,
                   tickVars, inputVars>>

\* with self.lock: (exit); the call returns to its caller.
MpUnlock(t) ==
    /\ pc[t] = "mp_unlock"
    /\ lock' = NoThread
    /\ last_put' =
         LET put == {batch[t][i][2] : i \in DOMAIN batch[t]} \ {None}
         IN [n \in DOMAIN last_put \cup put |->
               IF n \in put THEN LastFor(batch[t], n) ELSE last_put[n]]
    /\ batch' = [batch EXCEPT ![t] = <<>>]
    /\ idx' = [idx EXCEPT ![t] = 0]
    /\ pc' = [pc EXCEPT ![t] = IF t = "ui" THEN "cq_lock" ELSE "idle"]
    /\ UNCHANGED <<messages_named, messages_queue, checked_at, appended, now,
                   frameVars, is_online, tickVars, inputVars>>

\* A producer context calls messages_put(b), or message_put for one entry.
ProdPut(b) ==
    /\ pc["prod"] = "idle"
    /\ Len(appended) + AnonCount(b) <= MaxAnon
    /\ batch' = [batch EXCEPT !["prod"] = b]
    /\ pc' = [pc EXCEPT !["prod"] = "mp_lock"]
    /\ UNCHANGED <<messages_named, messages_queue, idx, checked_at, last_put,
                   appended, lock, now, frameVars, is_online, tickVars, inputVars>>

----------------------------------------------------------------------------
(* Messages.messages_flush, lines 106-109 *)

\* with self.lock: messages = {}  -- a local name; the lock is taken and released.
FlushLock ==
    /\ pc["prod"] = "idle"
    /\ lock = NoThread
    /\ lock' = "prod"
    /\ pc' = [pc EXCEPT !["prod"] = "fl_unlock"]
    /\ UNCHANGED <<messages_named, messages_queue, batch, idx, checked_at,
                   last_put, appended, now, frameVars, is_online, tickVars,
                   inputVars>>

\* A messages_flush that returns without releasing the lock.
FlushUnlockKeep ==
    /\ pc["prod"] = "fl_unlock"
    /\ pc' = [pc EXCEPT !["prod"] = "idle"]
    /\ UNCHANGED <<msgVars, now, frameVars, is_online, tickVars, inputVars>>

FlushUnlock ==
    /\ pc["prod"] = "fl_unlock"
    /\ lock' = NoThread
    /\ pc' = [pc EXCEPT !["prod"] = "idle"]
    /\ UNCHANGED <<messages_named, messages_queue, batch, idx, checked_at,
                   last_put, appended, now, frameVars, is_online, tickVars,
                   inputVars>>

----------------------------------------------------------------------------
(* Messages.clean_queue, lines 111-117 *)

\* Mutant of Outdated: >= in place of >.
OutdatedAtLimit(entry, time) == time - entry[2] >= message_display_time \div 1000

\* rospy.get_time() - self.messages_queue[0][1] > self.message_display_time / 1000
Outdated(entry, time) == time - entry[2] > message_display_time \div 1000

CqLock ==
    /\ pc["ui"] = "cq_lock"
    /\ lock = NoThread
    /\ lock' = "ui"
    /\ pc' = [pc EXCEPT !["ui"] = "cq_check"]
    /\ UNCHANGED <<messages_named, messages_queue, batch, idx, checked_at,
                   last_put, appended, now, frameVars, is_online, tickVars,
                   inputVars>>

\* The test of the while loop; it reads the clock.
CqCheck ==
    /\ pc["ui"] = "cq_check"
    /\ checked_at' = now
    /\ pc' = [pc EXCEPT !["ui"] =
                IF messages_queue # <<>> /\ Outdated(Head(messages_queue), now)
                THEN "cq_pop" ELSE "cq_unlock"]
    /\ UNCHANGED <<messages_named, messages_queue, batch, idx, last_put,
                   appended, lock, now, frameVars, is_online, tickVars, inputVars>>

\* A clean_queue that removes from the right end (pop) after testing the left.
CqPopRight ==
    /\ pc["ui"] = "cq_pop"
    /\ messages_queue' = SubSeq(messages_queue, 1, Len(messages_queue) - 1)
    /\ pc' = [pc EXCEPT !["ui"] = "cq_check"]
    /\ UNCHANGED <<messages_named, batch, idx, checked_at, last_put, appended,
                   lock, now, frameVars, is_online, tickVars, inputVars>>

\* self.messages_queue.popleft()
CqPop ==
    /\ pc["ui"] = "cq_pop"
    /\ messages_queue' = Tail(messages_queue)
    /\ pc' = [pc EXCEPT !["ui"] = "cq_check"]
    /\ UNCHANGED <<messages_named, batch, idx, checked_at, last_put, appended,
                   lock, now, frameVars, is_online, tickVars, inputVars>>

CqUnlock ==
    /\ pc["ui"] = "cq_unlock"
    /\ lock' = NoThread
    /\ checked_at' = 0
    /\ pc' = [pc EXCEPT !["ui"] = "rn_lock"]
    /\ UNCHANGED <<messages_named, messages_queue, batch, idx, last_put,
                   appended, now, frameVars, is_online, tickVars, inputVars>>

----------------------------------------------------------------------------
(* Messages.render, lines 119-156 *)

\* if entry is None: entry = []; if not isinstance(entry, (list, tuple)): entry = [entry]
EntryNames(entry) == IF entry.kind = "none" THEN <<>> ELSE entry.names

\* value = self.messages_named.get(name, '-'); if value is None: value = '-'
ValueOf(named, name) ==
    LET value == IF name \in DOMAIN named THEN named[name] ELSE Dash
    IN IF value = None THEN Dash ELSE value

\* '%s: %s' % (name, value)
Line(named, name) == name \o <<":", " ">> \o ValueOf(named, name)

\* int(height * .05) and int(height * .9)
Top(height) == (height * 5) \div 100
Bottom(height) == (height * 9) \div 10

\* The inner loop `for name in entry`: one drawText per name, 15 apart.
DrawNames(named, names, x, y) ==
    [k \in 1..Len(names) |->
        [x |-> x, y |-> y + 15 * (k - 1), text |-> Line(named, names[k])]]

\* An entry that leaves out the `y += 5` after its lines.
AdvanceNoSpacing(names, x, y, height) ==
    LET below == y + 15 * Len(names)
    IN IF below > Bottom(height)
       THEN [x |-> x + column_width, y |-> Top(height)]
       ELSE [x |-> x, y |-> below]

\* An entry that leaves out the test `if y > int(height * .9)`.
AdvanceNoWrap(names, x, y, height) ==
    [x |-> x, y |-> y + 15 * Len(names) + 5]

\* The cursor after one entry: y += 15 for each name, then y += 5, then
\* `if y > int(height * .9): y = int(height * .05); x += column_width`.
Advance(names, x, y, height) ==
    LET below == y + 15 * Len(names) + 5
    IN IF below > Bottom(height)
       THEN [x |-> x + column_width, y |-> Top(height)]
       ELSE [x |-> x, y |-> below]

\* The loop over self.message_structure from entry i on, the cursor at (x, y).
RECURSIVE LayoutNamed(_, _, _, _, _, _)
LayoutNamed(structure, named, i, x, y, height) ==
    IF i > Len(structure) THEN <<>>
    ELSE LET names == EntryNames(structure[i])
             next == Advance(names, x, y, height)
         IN DrawNames(named, names, x, y) \o
            LayoutNamed(structure, named, i + 1, next.x, next.y, height)

\* render's named loop before its first entry: x, y = int(width * .05),
\* int(height * .05), over the structure the Messages object was built with.
StartLayout(structure, width, height) ==
    [structure |-> structure, width |-> width, height |-> height, i |-> 1,
     x |-> Top(width), y |-> Top(height), lines |-> <<>>]

\* One pass of `for entry in self.message_structure` (no slot has a value).
RenderEntry ==
    /\ layout.i <= Len(layout.structure)
    /\ LET names == EntryNames(layout.structure[layout.i])
           next == Advance(names, layout.x, layout.y, layout.height)
       IN layout' = [layout EXCEPT
                       !.lines = @ \o DrawNames(<<>>, names, layout.x, layout.y),
                       !.x = next.x,
                       !.y = next.y,
                       !.i = @ + 1]
    /\ UNCHANGED <<pc, msgVars, now, frameVars, is_online, tickVars, request,
                   requests, keylog>>

\* The loop over self.messages_queue from entry i on, the cursor at (x, y).
RECURSIVE LayoutQueue(_, _, _, _, _)
LayoutQueue(queue, i, x, y, height) ==
    IF i > Len(queue) THEN <<>>
    ELSE LET below == y + 15
             wrap == below > Bottom(height)
         IN <<[x |-> x, y |-> y, text |-> queue[i][1]]>> \o
            LayoutQueue(queue, i + 1,
                        IF wrap THEN x - column_width ELSE x,
                        IF wrap THEN Top(height) ELSE below, height)

\* with self.lock: (entry), after clean_queue and the painter's set-up
RnLock ==
    /\ pc["ui"] = "rn_lock"
    /\ lock = NoThread
    /\ lock' = "ui"
    /\ pc' = [pc EXCEPT !["ui"] = "rn_named"]
    /\ UNCHANGED <<messages_named, messages_queue, batch, idx, checked_at,
                   last_put, appended, now, frameVars, is_online, tickVars,
                   inputVars>>

\* Mutant of RnNamed: setdefault(name, '-') in place of get(name, '-').
RnNamedSetDefault ==
    /\ pc["ui"] = "rn_named"
    /\ drawn' = LayoutNamed(grid, messages_named, 1, Top(pixmap.width),
                            Top(pixmap.height), pixmap.height)
    /\ messages_named' =
         LET names == UNION {{grid[i].names[k] : k \in DOMAIN grid[i].names} :
                                i \in DOMAIN grid}
         IN [n \in DOMAIN messages_named \cup names |->
               IF n \in DOMAIN messages_named THEN messages_named[n] ELSE Dash]
    /\ pc' = [pc EXCEPT !["ui"] = "rn_queue"]
    /\ UNCHANGED <<messages_queue, batch, idx, checked_at, last_put, appended,
                   lock, now, frameVars, is_online, pixmap, image_box,
                   last_tick, prev_tick, inputVars>>

\* for entry in self.message_structure: ...
RnNamed ==
    /\ pc["ui"] = "rn_named"
    /\ drawn' = LayoutNamed(grid, messages_named, 1, Top(pixmap.width),
                            Top(pixmap.height), pixmap.height)
    /\ pc' = [pc EXCEPT !["ui"] = "rn_queue"]
    /\ UNCHANGED <<msgVars, now, frameVars, is_online, pixmap, image_box,
                   last_tick, prev_tick, inputVars>>

\* for text, time in self.messages_queue: ...
RnQueue ==
    /\ pc["ui"] = "rn_queue"
    /\ drawn' = drawn \o LayoutQueue(messages_queue, 1,
                                     pixmap.width - column_width,
                                     Top(pixmap.height), pixmap.height)
    /\ pc' = [pc EXCEPT !["ui"] = "rn_unlock"]
    /\ UNCHANGED <<msgVars, now, frameVars, is_online, pixmap, image_box,
                   last_tick, prev_tick, inputVars>>

\* A render that returns without releasing the aggregator lock.
RnUnlockKeep ==
    /\ pc["ui"] = "rn_unlock"
    /\ pc' = [pc EXCEPT !["ui"] = "rd_present"]
    /\ UNCHANGED <<msgVars, now, frameVars, is_online, tickVars, inputVars>>

\* with self.lock: (exit); painter.end(); render returns to on_redraw.
RnUnlock ==
    /\ pc["ui"] = "rn_unlock"
    /\ lock' = NoThread
    /\ pc' = [pc EXCEPT !["ui"] = "rd_present"]
    /\ UNCHANGED <<messages_named, messages_queue, batch, idx, checked_at,
                   last_put, appended, now, frameVars, is_online, tickVars,
                   inputVars>>

----------------------------------------------------------------------------
(* UInode.on_redraw, lines 225-243 *)

\* Mutant of PickPixmap: `or` in place of `and`.
PickPixmapEither(online, img) ==
    IF online \/ img # NoImage THEN FromImage(img) ELSE Placeholder

\* if self.controller.is_online and self.image is not None: ... else: ...
PickPixmap(online, img) ==
    IF online /\ img # NoImage THEN FromImage(img) ELSE Placeholder

\* The timer fires: image = None
RdStart ==
    /\ pc["ui"] = "idle"
    /\ pixmap' = NoPixmap
    /\ pc' = [pc EXCEPT !["ui"] = "rd_lock_image"]
    /\ UNCHANGED <<msgVars, now, frameVars, is_online, drawn, image_box,
                   last_tick, prev_tick, inputVars>>

\* with self.image_lock: (entry)
RdLockImage ==
    /\ pc["ui"] = "rd_lock_image"
    /\ image_lock = NoThread
    /\ image_lock' = "ui"
    /\ pc' = [pc EXCEPT !["ui"] = "rd_pick"]
    /\ UNCHANGED <<msgVars, now, slotVars, is_online, tickVars, inputVars>>

\* The if statement under the lock: the frame or the placeholder.
RdPick ==
    /\ pc["ui"] = "rd_pick"
    /\ pixmap' = PickPixmap(is_online, image)
    /\ drawn' = <<>>
    /\ prev_tick' = last_tick
    /\ last_tick' = [online |-> is_online, frame |-> image.id,
                     used |-> pixmap'.kind]
    /\ pc' = [pc EXCEPT !["ui"] = "rd_unlock_image"]
    /\ UNCHANGED <<msgVars, now, frameVars, is_online, image_box, inputVars>>

\* A body of on_redraw whose remaining statements sit inside the
\* `with self.image_lock:` block: the frame lock is kept across messages_put.
RdUnlockImageLate ==
    /\ pc["ui"] = "rd_unlock_image"
    /\ pc' = [pc EXCEPT !["ui"] = "rd_put"]
    /\ UNCHANGED <<msgVars, now, frameVars, is_online, tickVars, inputVars>>

\* with self.image_lock: (exit)
RdUnlockImage ==
    /\ pc["ui"] = "rd_unlock_image"
    /\ image_lock' = NoThread
    /\ pc' = [pc EXCEPT !["ui"] = "rd_put"]
    /\ UNCHANGED <<msgVars, now, slotVars, is_online, tickVars, inputVars>>

\* self.messages.messages_put(((status.readable(), 'drone.status'),
\*                             (battery, 'drone.battery')))
RdPut(status, battery) ==
    /\ pc["ui"] = "rd_put"
    /\ batch' = [batch EXCEPT !["ui"] =
                   <<<<status, drone_status>>, <<battery, drone_battery>>>>]
    /\ pc' = [pc EXCEPT !["ui"] = "mp_lock"]
    /\ UNCHANGED <<messages_named, messages_queue, idx, checked_at, last_put,
                   appended, lock, now, frameVars, is_online, tickVars,
                   inputVars>>

\* self.resize(...); self.image_box.setPixmap(image)
RdPresent ==
    /\ pc["ui"] = "rd_present"
    /\ image_box' = pixmap
    /\ pixmap' = NoPixmap
    /\ drawn' = <<>>
    /\ pc' = [pc EXCEPT !["ui"] = "idle"]
    /\ UNCHANGED <<msgVars, now, frameVars, is_online, last_tick, prev_tick,
                   inputVars>>

----------------------------------------------------------------------------
(* UInode.on_video_update, lines 211-223 *)

\* QtGui.QImage.rgbSwapped(image)
RgbSwapped(img) == [img EXCEPT !.swapped = ~img.swapped]

\* self.communication_since_timer = True; image = QImage(...); the optional swap
VuStart(size) ==
    /\ pc["video"] = "idle"
    /\ Len(published) < MaxFrames
    /\ communication_since_timer' = TRUE
    /\ new_image' =
         LET img == [id |-> Len(published) + 1, swapped |-> FALSE,
                     width |-> size[1], height |-> size[2]]
         IN IF swap_red_blue THEN RgbSwapped(img) ELSE img
    /\ pc' = [pc EXCEPT !["video"] = "vu_lock"]
    /\ UNCHANGED <<msgVars, now, image, published, swap_red_blue, image_lock,
                   is_online, tickVars, inputVars>>

\* with self.image_lock: (entry)
VuLock ==
    /\ pc["video"] = "vu_lock"
    /\ image_lock = NoThread
    /\ image_lock' = "video"
    /\ pc' = [pc EXCEPT !["video"] = "vu_store"]
    /\ UNCHANGED <<msgVars, now, slotVars, is_online, tickVars, inputVars>>

\* Mutant of VuStore: a frame not yet replaced is kept (no overwrite).
VuStoreIfEmpty ==
    /\ pc["video"] = "vu_store"
    /\ image' = IF image = NoImage THEN new_image ELSE image
    /\ pc' = [pc EXCEPT !["video"] = "vu_unlock"]
    /\ UNCHANGED <<msgVars, now, new_image, communication_since_timer,
                   published, swap_red_blue, image_lock, is_online, tickVars,
                   inputVars>>

\* self.image = image
VuStore ==
    /\ pc["video"] = "vu_store"
    /\ image' = new_image
    /\ pc' = [pc EXCEPT !["video"] = "vu_unlock"]
    /\ UNCHANGED <<msgVars, now, new_image, communication_since_timer,
                   published, swap_red_blue, image_lock, is_online, tickVars,
                   inputVars>>

\* with self.image_lock: (exit); the callback returns.
VuUnlock ==
    /\ pc["video"] = "vu_unlock"
    /\ image_lock' = NoThread
    /\ published' = Append(published, new_image)
    /\ new_image' = NoImage
    /\ pc' = [pc EXCEPT !["video"] = "idle"]
    /\ UNCHANGED <<msgVars, now, image, communication_since_timer,
                   swap_red_blue, is_online, tickVars, inputVars>>

----------------------------------------------------------------------------
(* UInode.messages_named_template, lines 176-177; on_ui_request, lines 195-209 *)

\* [a-zA-Z0-9_-]
IdChars ==
    {"a", "b", "c", "d", "e", "f", "g", "h", "i", "j", "k", "l", "m", "n", "o",
     "p", "q", "r", "s", "t", "u", "v", "w", "x", "y", "z",
     "A", "B", "C", "D", "E", "F", "G", "H", "I", "J", "K", "L", "M", "N", "O",
     "P", "Q", "R", "S", "T", "U", "V", "W", "X", "Y", "Z",
     "0", "1", "2", "3", "4", "5", "6", "7", "8", "9", "_", "-"}

\* The longest run [a-zA-Z0-9_-]* at the start of text: what the greedy + takes.
IdRun(text) ==
    CHOOSE n \in 0..Len(text) :
        /\ \A i \in 1..n : text[i] \in IdChars
        /\ n < Len(text) => text[n + 1] \notin IdChars

\* (?P<message>.*): `.` matches every character but the newline.
UpToNewline(text) ==
    LET stops == {i \in 1..Len(text) : text[i] = "\n"}
    IN IF stops = {} THEN text
       ELSE SubSeq(text, 1, (CHOOSE i \in stops : \A j \in stops : i <= j) - 1)

\* messages_named_template.match(text).groupdict().  The optional group takes
\* the whole run and needs `::` right after it; a shorter name would be
\* followed by a name character, so giving characters back never helps, and
\* the group is then skipped (name = None).
Match(text) ==
    LET n == IdRun(text)
        named == /\ n >= 1
                 /\ Len(text) >= n + 2
                 /\ text[n + 1] = ":"
                 /\ text[n + 2] = ":"
    IN [name |-> IF named THEN SubSeq(text, 1, n) ELSE None,
        message |-> UpToNewline(IF named THEN SubSeq(text, n + 3, Len(text))
                                ELSE text)]

\* match = ...match(message.data); self.messages.message_put(**match.groupdict())
OnUiRequest(text) ==
    /\ pc["msg"] = "idle"
    /\ requests < MaxRequests
    /\ LET m == Match(text)
       IN /\ Len(appended) + AnonCount(<<<<m.message, m.name>>>>) <= MaxAnon
          /\ batch' = [batch EXCEPT !["msg"] = <<<<m.message, m.name>>>>]
    /\ request' = text
    /\ requests' = requests + 1
    /\ pc' = [pc EXCEPT !["msg"] = "mp_lock"]
    /\ UNCHANGED <<messages_named, messages_queue, idx, checked_at, last_put,
                   appended, lock, now, frameVars, is_online, tickVars, keylog,
                   layout>>

----------------------------------------------------------------------------
(* UInode.gen_keymap, lines 245-260; keyPressEvent and keyReleaseEvent, 262-278 *)

Keys == {"R", "T", "L", "H", "A", "D", "W", "S", "Q", "E", "BracketRight",
         "BracketLeft", "Y", "X"}

Call(fn) == [fn |-> fn, axis |-> "", value |-> 0]
SendVel(axis, value) == [fn |-> "send_vel", axis |-> axis, value |-> value]

\* The table's keys.
KeymapKeys == Keys \ {"X"}

\* Mutant of Key_Y: the signal is published whatever the axis value.
Key_YAlways(ax) == <<Call("ap_publish")>>

\* Key_Y: self._ap_topic.publish(Empty()) if ax != 0 else None
Key_Y(ax) == IF ax # 0 THEN <<Call("ap_publish")>> ELSE <<>>

\* A command that is sent for a press only, as Key_Y's signal is.
CommandOnPress(fn, ax) == IF ax # 0 THEN <<Call(fn)>> ELSE <<>>

\* lambda ax, e: self.controller.reset() (takeoff, land, hover): ax is not used.
Command(fn, ax) == <<Call(fn)>>

\* self.keymap[key](ax, e): the controller calls and publications it makes.
Keymap(key, ax) ==
    CASE key = "R" -> Command("reset", ax)
      [] key = "T" -> Command("takeoff", ax)
      [] key = "L" -> Command("land", ax)
      [] key = "H" -> Command("hover", ax)
      [] key = "A" -> <<SendVel("y", ax)>>
      [] key = "D" -> <<SendVel("y", -ax)>>
      [] key = "W" -> <<SendVel("x", ax)>>
      [] key = "S" -> <<SendVel("x", -ax)>>
      [] key = "Q" -> <<SendVel("yaw", ax)>>
      [] key = "E" -> <<SendVel("yaw", -ax)>>
      [] key = "BracketRight" -> <<SendVel("z", ax)>>
      [] key = "BracketLeft" -> <<SendVel("z", -ax)>>
      [] key = "Y" -> Key_Y(ax)

\* The body shared by the two handlers; self.controller is set in __init__
\* and never None afterwards.
Dispatch(key, auto, ax) ==
    IF auto THEN [invoked |-> FALSE, calls |-> <<>>]
    ELSE IF key \in KeymapKeys THEN [invoked |-> TRUE, calls |-> Keymap(key, ax)]
    ELSE [invoked |-> FALSE, calls |-> <<>>]

\* Mutant of KeyPress: the auto-repeat flag is not looked at.
KeyPressRepeating(key, auto) == Dispatch(key, FALSE, 1)

\* keyPressEvent: self.keymap[key](1, event)
KeyPress(key, auto) == Dispatch(key, auto, 1)

\* Mutant of KeyRelease: the release passes the axis value of a press.
KeyReleaseAsPress(key, auto) == Dispatch(key, auto, 1)

\* keyReleaseEvent: self.keymap[key](0, event)
KeyRelease(key, auto) == Dispatch(key, auto, 0)

keyPressEvent(key, auto) ==
    /\ pc["ui"] = "idle"
    /\ Len(keylog) < MaxEvents
    /\ keylog' = Append(keylog, [key |-> key, edge |-> "press", auto |-> auto,
                                 did |-> KeyPress(key, auto)])
    /\ UNCHANGED <<pc, msgVars, now, frameVars, is_online, tickVars, request,
                   requests, layout>>

keyReleaseEvent(key, auto) ==
    /\ pc["ui"] = "idle"
    /\ Len(keylog) < MaxEvents
    /\ keylog' = Append(keylog, [key |-> key, edge |-> "release", auto |-> auto,
                                 did |-> KeyRelease(key, auto)])
    /\ UNCHANGED <<pc, msgVars, now, frameVars, is_online, tickVars, request,
                   requests, layout>>

----------------------------------------------------------------------------
(* The environment *)

\* rospy.get_time() advances.
Tick ==
    /\ now < MaxTime
    /\ now' = now + 1
    /\ UNCHANGED <<pc, msgVars, frameVars, is_online, tickVars, inputVars>>

\* The controller goes online or offline (navdata arrives or stops arriving).
ControllerOnline ==
    /\ is_online' = ~is_online
    /\ UNCHANGED <<pc, msgVars, now, frameVars, tickVars, inputVars>>

----------------------------------------------------------------------------
(* The aggregator under a producer, the redraw tick and the clock *)

Init ==
    /\ pc = [t \in Threads |-> "idle"]
    /\ lock = NoThread
    /\ image_lock = NoThread
    /\ messages_named = <<>>
    /\ messages_queue = <<>>
    /\ now = 0
    /\ batch = [t \in Threads |-> <<>>]
    /\ idx = [t \in Threads |-> 0]
    /\ checked_at = 0
    /\ image = NoImage
    /\ new_image = NoImage
    /\ communication_since_timer = FALSE
    /\ swap_red_blue = FALSE
    /\ is_online = FALSE
    /\ pixmap = NoPixmap
    /\ drawn = <<>>
    /\ image_box = NoPixmap
    /\ request = None
    /\ requests = 0
    /\ keylog = <<>>
    /\ last_put = <<>>
    /\ appended = <<>>
    /\ published = <<>>
    /\ last_tick = NoTick
    /\ prev_tick = NoTick
    /\ layout = StartLayout(grid, 640, 360)

Redraw ==
    \/ RdStart
    \/ RdLockImage
    \/ RdPick
    \/ RdUnlockImage
    \/ \E status \in StatusTexts, battery \in BatteryValues : RdPut(status, battery)
    \/ MpLock("ui")
    \/ MpLoop("ui")
    \/ MpUnlock("ui")
    \/ CqLock
    \/ CqCheck
    \/ CqUnlock
    \/ RnLock
    \/ RnNamed
    \/ RnQueue
    \/ RnUnlock
    \/ RdPresent

Producer ==
    \/ \E b \in Batches : ProdPut(b)
    \/ MpLock("prod")
    \/ MpLoop("prod")
    \/ MpUnlock("prod")
    \/ FlushLock
    \/ FlushUnlock

Next ==
    \/ Redraw
    \/ CqPop
    \/ Producer
    \/ Tick

Spec == Init /\ [][Next]_vars

----------------------------------------------------------------------------
(* The frame slot under the video callback, the redraw tick and the controller *)

InitFrame ==
    /\ pc = [t \in Threads |-> "idle"]
    /\ lock = NoThread
    /\ image_lock = NoThread
    /\ messages_named = <<>>
    /\ messages_queue = <<>>
    /\ now = 0
    /\ batch = [t \in Threads |-> <<>>]
    /\ idx = [t \in Threads |-> 0]
    /\ checked_at = 0
    /\ image = NoImage
    /\ new_image = NoImage
    /\ communication_since_timer = FALSE
    /\ swap_red_blue \in BOOLEAN
    /\ is_online = FALSE
    /\ pixmap = NoPixmap
    /\ drawn = <<>>
    /\ image_box = NoPixmap
    /\ request = None
    /\ requests = 0
    /\ keylog = <<>>
    /\ last_put = <<>>
    /\ appended = <<>>
    /\ published = <<>>
    /\ last_tick = NoTick
    /\ prev_tick = NoTick
    /\ layout = StartLayout(grid, 640, 360)

Video ==
    \/ \E size \in FrameSizes : VuStart(size)
    \/ VuLock
    \/ VuStore
    \/ VuUnlock

\* No anonymous message is put here, so clean_queue never pops.
NextFrame ==
    \/ Redraw
    \/ Video
    \/ ControllerOnline

SpecFrame == InitFrame /\ [][NextFrame]_vars

----------------------------------------------------------------------------
(* The /ui/message callback alone, over every text of up to MaxLen characters *)

Texts == SeqsUpTo(Chars, MaxLen)

\* The texts `<identifier>::5`, one for every identifier the grid lists.
GridMessages ==
    UNION {{grid[i].names[k] \o <<":", ":", "5">> : k \in DOMAIN grid[i].names} :
              i \in DOMAIN grid}

NextParse ==
    \/ \E text \in Texts \cup GridMessages : OnUiRequest(text)
    \/ MpLock("msg")
    \/ MpLoop("msg")
    \/ MpUnlock("msg")

SpecParse == Init /\ [][NextParse]_vars

----------------------------------------------------------------------------
(* The key handlers alone, over every sequence of up to MaxEvents events *)

NextKeys ==
    \/ \E key \in Keys, auto \in BOOLEAN : keyPressEvent(key, auto)
    \/ \E key \in Keys, auto \in BOOLEAN : keyReleaseEvent(key, auto)

SpecKeys == Init /\ [][NextKeys]_vars

----------------------------------------------------------------------------
(* render's named loop alone, over every message structure of up to
   MaxEntries entries and a few image sizes *)

\* The three kinds of entry a message structure has: None, a name, a list.
LayoutEntries ==
    {Blank, One(tgt_x), Group(<<tgt_x, tgt_y>>), Group(<<tgt_x, tgt_y, tgt_z>>)}

Structures == SeqsUpTo(LayoutEntries, MaxEntries)

ImageWidths == {640}
ImageHeights == {40, 100, 360}

InitLayout ==
    /\ pc = [t \in Threads |-> "idle"]
    /\ lock = NoThread
    /\ image_lock = NoThread
    /\ messages_named = <<>>
    /\ messages_queue = <<>>
    /\ now = 0
    /\ batch = [t \in Threads |-> <<>>]
    /\ idx = [t \in Threads |-> 0]
    /\ checked_at = 0
    /\ image = NoImage
    /\ new_image = NoImage
    /\ communication_since_timer = FALSE
    /\ swap_red_blue = FALSE
    /\ is_online = FALSE
    /\ pixmap = NoPixmap
    /\ drawn = <<>>
    /\ image_box = NoPixmap
    /\ request = None
    /\ requests = 0
    /\ keylog = <<>>
    /\ last_put = <<>>
    /\ appended = <<>>
    /\ published = <<>>
    /\ last_tick = NoTick
    /\ prev_tick = NoTick
    /\ layout \in {StartLayout(structure, width, height) :
                      structure \in Structures, width \in ImageWidths,
                      height \in ImageHeights}

NextLayout == RenderEntry

SpecLayout == InitLayout /\ [][NextLayout]_vars

----------------------------------------------------------------------------
(* The queue under two producers of anonymous messages (a message_put caller
   and the /ui/message callback), the redraw tick and the clock *)

\* A /ui/message text without a name.
QueueTexts == {<<"a">>}

NextQueue ==
    \/ Redraw
    \/ CqPop
    \/ \E m \in AnonMessages : ProdPut(<<<<m, None>>>>)
    \/ MpLock("prod")
    \/ MpLoop("prod")
    \/ MpUnlock("prod")
    \/ \E text \in QueueTexts : OnUiRequest(text)
    \/ MpLock("msg")
    \/ MpLoop("msg")
    \/ MpUnlock("msg")
    \/ Tick

SpecQueue == Init /\ [][NextQueue]_vars

----------------------------------------------------------------------------
(* All three contexts together under fair scheduling: the redraw tick, a
   producer (message_put and messages_flush) and the video callback *)

\* The steps of a tick that has started (the timer's firing is RdStart).
\* The producer here puts named messages without end, so the queue stays
\* empty and clean_queue's loop is left at its first test: no CqPop.
UiStep ==
    \/ RdLockImage
    \/ RdPick
    \/ RdUnlockImage
    \/ \E status \in StatusTexts, battery \in BatteryValues : RdPut(status, battery)
    \/ MpLock("ui")
    \/ MpLoop("ui")
    \/ MpUnlock("ui")
    \/ CqLock
    \/ CqCheck
    \/ CqUnlock
    \/ RnLock
    \/ RnNamed
    \/ RnQueue
    \/ RnUnlock
    \/ RdPresent

\* The steps of a producer call that has started.
ProdStep ==
    \/ MpLock("prod")
    \/ MpLoop("prod")
    \/ MpUnlock("prod")
    \/ FlushUnlock

\* The steps of an on_video_update call that has started.
VideoStep ==
    \/ VuLock
    \/ VuStore
    \/ VuUnlock

NextLive ==
    \/ RdStart
    \/ UiStep
    \/ \E m \in PutMessages, n \in PutNames : ProdPut(<<<<m, n>>>>)
    \/ FlushLock
    \/ ProdStep
    \/ \E size \in FrameSizes : VuStart(size)
    \/ VideoStep

\* Every context that has a step to take is scheduled again and again, and a
\* context waiting for a lock gets it if the lock is free again and again.
Fairness ==
    /\ SF_vars(UiStep)
    /\ SF_vars(ProdStep)
    /\ SF_vars(VideoStep)

SpecLive == Init /\ [][NextLive]_vars /\ Fairness

----------------------------------------------------------------------------
(* Claims about the aggregator, checked under Spec *)

\* Thread t has applied some but not all entries of its messages_put batch.
Partial(t) == pc[t] = "mp_loop" /\ 1 < idx[t] /\ idx[t] <= Len(batch[t])

\* C1: whenever render reads the aggregator under the lock (its two loops), no
\* messages_put batch of any thread is partly applied: each batch is either
\* wholly in the state read or not in it at all.
C1_NoPartialBatchRead ==
    pc["ui"] \in {"rn_named", "rn_queue"} => \A t \in Threads : ~Partial(t)

\* Render reads while a two-entry batch waits for the lock, after an earlier
\* batch put a named and an anonymous message.
C1_Witness ==
    /\ pc["ui"] = "rn_queue"
    /\ pc["prod"] = "mp_lock"
    /\ Len(batch["prod"]) = 2
    /\ tgt_x \in DOMAIN messages_named
    /\ messages_queue # <<>>

GridNames == <<drone_status, drone_battery, tgt_x, tgt_y, tgt_z>>

\* What the screen shows for a value: the value, or a dash for none.
Shown(values, name) ==
    IF name \in DOMAIN values /\ values[name] # None THEN values[name] ELSE Dash

\* C2: when no put is in progress, the value held for every name is that of
\* the latest completed put of the name (and a name never put is not held);
\* and the lines render has drawn for the names of the grid show those values.
C2_LastPutWins ==
    /\ (\A t \in Threads : pc[t] \notin {"mp_loop", "mp_unlock"})
          => messages_named = last_put
    /\ pc["ui"] = "rn_queue"
          => /\ Len(drawn) = Len(GridNames)
             /\ \A k \in DOMAIN GridNames :
                   drawn[k].text =
                      GridNames[k] \o <<":", " ">> \o Shown(last_put, GridNames[k])

\* The tick drew `tgt.x: 1`, and a later put has replaced the value by 2.
C2_Witness ==
    /\ pc["ui"] = "rd_present"
    /\ pc["prod"] = "idle"
    /\ drawn[3].text = tgt_x \o <<":", " ", "1">>
    /\ tgt_x \in DOMAIN messages_named
    /\ messages_named[tgt_x] = <<"2">>
    /\ last_put[tgt_x] = <<"2">>

\* The display duration in seconds.
Ttl == message_display_time \div 1000

KeptUpTo(entry) == checked_at <= entry[2] + Ttl
KeptBefore(entry) == checked_at < entry[2] + Ttl

\* C3 as stated: when clean_queue leaves its loop, its last test made at time
\* checked_at, the queue holds exactly the appended messages with
\* checked_at < T + ttl; one with checked_at >= T + ttl is gone.
C3_Original ==
    pc["ui"] = "cq_unlock" => messages_queue = SelectSeq(appended, KeptBefore)

\* C3 amended: when clean_queue leaves its loop, its last test made at time
\* checked_at, the queue holds exactly the appended messages with
\* checked_at <= T + ttl: a message is removed only once its age exceeds ttl.
C3_KeptUntilOlderThanTtl ==
    pc["ui"] = "cq_unlock" => messages_queue = SelectSeq(appended, KeptUpTo)

\* clean_queue ends at the very time T + ttl of a message it keeps, having
\* removed an older one.
C3_Witness ==
    /\ pc["ui"] = "cq_unlock"
    /\ Len(appended) = 2
    /\ Len(messages_queue) = 1
    /\ checked_at = messages_queue[1][2] + Ttl

\* A step taken by the running render call (clean_queue included).
RenderStep ==
    /\ pc["ui"] \in {"cq_lock", "cq_check", "cq_pop", "cq_unlock", "rn_lock",
                     "rn_named", "rn_queue", "rn_unlock"}
    /\ pc'["ui"] # pc["ui"]

\* C10 as stated: no step of render changes the named map or the queue.
C10_Original ==
    [][RenderStep => /\ messages_named' = messages_named
                     /\ messages_queue' = messages_queue]_vars

\* C10 amended: no step of render changes the named map, and a step of render
\* changes the queue only by removing its first entry, whose age exceeds the
\* display duration (render itself calls clean_queue first).
C10_RenderOnlyPrunes ==
    [][RenderStep =>
         /\ messages_named' = messages_named
         /\ \/ messages_queue' = messages_queue
            \/ /\ messages_queue # <<>>
               /\ messages_queue' = Tail(messages_queue)
               /\ now - Head(messages_queue)[2] > Ttl]_vars

\* Render has drawn after its own clean_queue removed a message.
C10_Witness ==
    /\ pc["ui"] = "rn_unlock"
    /\ Len(appended) = 2
    /\ Len(messages_queue) = 1
    /\ Len(drawn) = Len(GridNames) + 1

----------------------------------------------------------------------------
(* Claims about the frame slot, checked under SpecFrame *)

LastPublished == IF published = <<>> THEN NoImage ELSE Last(published)

\* C4: when a tick has read the slot under the lock, the frame it took is the
\* last frame whose on_video_update completed, and the slot still holds it.
C4_ReadsLastPublished ==
    pc["ui"] = "rd_unlock_image" =>
        /\ pixmap.kind = "frame" =>
              /\ published # <<>>
              /\ pixmap = FromImage(Last(published))
        /\ image = LastPublished

\* Two ticks in a row read the second of two published frames.
C4_Witness ==
    /\ pc["ui"] = "rd_unlock_image"
    /\ Len(published) = 2
    /\ pixmap.kind = "frame"
    /\ pixmap.id = 2
    /\ prev_tick.used = "frame"
    /\ prev_tick.frame = 2

\* C9: the choice a tick makes under the lock is the real frame if and only
\* if the controller is online at that moment and a frame has been published,
\* and the 640x360 placeholder otherwise, whatever the ticks before chose.
C9_FrameIffOnlineAndPublished ==
    [][pc["ui"] = "rd_pick" /\ pc'["ui"] = "rd_unlock_image" =>
         IF is_online /\ published # <<>>
         THEN pixmap' = FromImage(Last(published))
         ELSE /\ pixmap'.kind = "placeholder"
              /\ pixmap'.width = 640
              /\ pixmap'.height = 360]_vars

\* A tick that had a frame but was offline used the placeholder, and the next
\* tick uses the frame.
C9_Witness ==
    /\ pc["ui"] = "rd_unlock_image"
    /\ prev_tick.used = "placeholder"
    /\ ~prev_tick.online
    /\ prev_tick.frame # 0
    /\ last_tick.used = "frame"
    /\ pixmap.kind = "frame"

----------------------------------------------------------------------------
(* Claims about the key handlers, checked under SpecKeys *)

VelocityKeys == {"A", "D", "W", "S", "Q", "E", "BracketRight", "BracketLeft"}

\* The axis and the signed unit value the key table gives each velocity key.
VelAxis(key) ==
    CASE key \in {"A", "D"} -> "y"
      [] key \in {"W", "S"} -> "x"
      [] key \in {"Q", "E"} -> "yaw"
      [] key \in {"BracketRight", "BracketLeft"} -> "z"

VelUnit(key) == IF key \in {"A", "W", "Q", "BracketRight"} THEN 1 ELSE -1

\* The calls made by the events i..j of the log, in order.
RECURSIVE CallsOf(_, _)
CallsOf(i, j) ==
    IF i > j THEN <<>> ELSE keylog[i].did.calls \o CallsOf(i + 1, j)

\* C5: a non-auto-repeat press of a velocity key followed by its non-auto-
\* repeat release (only auto-repeat events, if any, in between) makes exactly
\* two calls: send_vel with the key's axis at its signed unit, then send_vel
\* with the same axis at 0.
C5_PressThenReleaseZeroes ==
    \A i, j \in DOMAIN keylog :
        ( /\ i < j
          /\ keylog[i].key \in VelocityKeys
          /\ keylog[i].edge = "press" /\ ~keylog[i].auto
          /\ keylog[j].key = keylog[i].key
          /\ keylog[j].edge = "release" /\ ~keylog[j].auto
          /\ \A m \in (i + 1)..(j - 1) : keylog[m].auto )
        => CallsOf(i, j) =
              <<[fn |-> "send_vel", axis |-> VelAxis(keylog[i].key),
                 value |-> VelUnit(keylog[i].key)],
                [fn |-> "send_vel", axis |-> VelAxis(keylog[i].key),
                 value |-> 0]>>

\* D was pressed and released.
C5_Witness ==
    /\ Len(keylog) = 2
    /\ keylog[1].key = "D" /\ keylog[1].edge = "press" /\ ~keylog[1].auto
    /\ keylog[2].key = "D" /\ keylog[2].edge = "release" /\ ~keylog[2].auto
    /\ keylog[2].did.calls # <<>>

MappedKeys == {"R", "T", "L", "H", "A", "D", "W", "S", "Q", "E", "BracketRight",
               "BracketLeft", "Y"}

\* C6: an event flagged auto-repeat invokes no action and makes no call, and
\* the number of actions invoked is the number of events of mapped keys that
\* are not auto-repeat.
C6_AutoRepeatDoesNothing ==
    /\ \A i \in DOMAIN keylog :
          keylog[i].auto => ~keylog[i].did.invoked /\ keylog[i].did.calls = <<>>
    /\ Cardinality({i \in DOMAIN keylog : keylog[i].did.invoked}) =
       Cardinality({i \in DOMAIN keylog :
                       ~keylog[i].auto /\ keylog[i].key \in MappedKeys})

\* W was pressed, and its auto-repeated press made no call.
C6_Witness ==
    /\ Len(keylog) = 2
    /\ keylog[1].key = "W" /\ keylog[1].edge = "press" /\ ~keylog[1].auto
    /\ keylog[1].did.calls # <<>>
    /\ keylog[2].key = "W" /\ keylog[2].edge = "press" /\ keylog[2].auto
    /\ keylog[2].did.calls = <<>>

\* C7: the key Y publishes one autopilot signal on a press that is not an
\* auto-repeat, and nothing on any release (nor on an auto-repeat).
C7_AutopilotOnPressOnly ==
    \A i \in DOMAIN keylog :
        keylog[i].key = "Y" =>
            keylog[i].did.calls =
                IF keylog[i].edge = "press" /\ ~keylog[i].auto
                THEN <<[fn |-> "ap_publish", axis |-> "", value |-> 0]>>
                ELSE <<>>

\* Y was pressed, which published, and released, which did not.
C7_Witness ==
    /\ Len(keylog) = 2
    /\ keylog[1].key = "Y" /\ keylog[1].edge = "press" /\ ~keylog[1].auto
    /\ Len(keylog[1].did.calls) = 1
    /\ keylog[2].key = "Y" /\ keylog[2].edge = "release" /\ ~keylog[2].auto
    /\ keylog[2].did.invoked
    /\ keylog[2].did.calls = <<>>

----------------------------------------------------------------------------
(* Claims about the /ui/message callback, checked under SpecParse *)

\* The place of the first `::` of text, or 0.
FirstSeparator(text) ==
    LET at == {i \in 1..(Len(text) - 1) : text[i] = ":" /\ text[i + 1] = ":"}
    IN IF at = {} THEN 0 ELSE CHOOSE i \in at : \A j \in at : i <= j

\* The text before the first `::` is a non-empty identifier.
HasLeadingName(text) ==
    /\ FirstSeparator(text) >= 2
    /\ \A i \in 1..(FirstSeparator(text) - 1) : text[i] \in IdChars

\* C8 as stated: once on_ui_request has returned, a text with a leading
\* identifier has put everything after its first `::` under that name, and
\* any other text stands whole as the newest anonymous entry.
C8_Original ==
    (pc["msg"] = "idle" /\ requests > 0) =>
        IF HasLeadingName(request)
        THEN LET at == FirstSeparator(request)
                 name == SubSeq(request, 1, at - 1)
             IN /\ name \in DOMAIN messages_named
                /\ messages_named[name] = SubSeq(request, at + 2, Len(request))
        ELSE /\ messages_queue # <<>>
             /\ Last(messages_queue)[1] = request

----------------------------------------------------------------------------
(* Claims about the two locks, checked under SpecFrame *)

\* The program points at which a thread is about to acquire Messages.lock.
AcquiresLock == {"mp_lock", "cq_lock", "rn_lock"}

\* The program points at which a thread is about to acquire UInode.image_lock.
AcquiresImageLock == {"rd_lock_image", "vu_lock"}

\* C11: in every reachable state no thread holds Messages.lock and
\* UInode.image_lock at once, and no thread is about to acquire one of them
\* while it holds the other.
C11_LocksNeverNested ==
    \A t \in Threads :
        /\ ~(lock = t /\ image_lock = t)
        /\ pc[t] \in AcquiresLock => image_lock # t
        /\ pc[t] \in AcquiresImageLock => lock # t

\* Both locks are held at once, by different threads: on_redraw is inside
\* render while on_video_update stores a frame.
C11_Witness ==
    /\ lock = "ui"
    /\ image_lock = "video"
    /\ pc["ui"] = "rn_queue"
    /\ pc["video"] = "vu_store"

\* The program points whose next step draws text onto the image
\* (painter.drawText in render) or converts the frame (QPixmap.fromImage).
DrawsText == {"rn_named", "rn_queue"}
ConvertsFrame == {"rd_pick"}

\* C12 as stated: no lock is held by a thread whose next step draws text,
\* converts the frame or reads the controller.
C12_Original ==
    pc["ui"] \in DrawsText \cup ConvertsFrame \cup {"rd_put"} =>
        (lock # "ui" /\ image_lock # "ui")

\* C12: render draws every line while it holds Messages.lock (and not the
\* frame lock), on_redraw converts the frame while it holds image_lock (and
\* not Messages.lock), and no lock is held when on_redraw reads the
\* controller's status for messages_put, presents the image, or is idle
\* (where the key handlers make their controller calls).
C12_DrawsUnderLock ==
    /\ pc["ui"] \in DrawsText => (lock = "ui" /\ image_lock # "ui")
    /\ pc["ui"] \in ConvertsFrame => (image_lock = "ui" /\ lock # "ui")
    /\ pc["ui"] \in {"rd_put", "rd_present", "idle"} =>
           (lock # "ui" /\ image_lock # "ui")

\* render has drawn the named lines and is about to draw the queue, still
\* inside its critical section, over a converted frame.
C12_Witness ==
    /\ pc["ui"] = "rn_queue"
    /\ lock = "ui"
    /\ drawn # <<>>
    /\ pixmap.kind = "frame"

----------------------------------------------------------------------------
(* Claims about messages_flush, checked under Spec *)

\* C13 as stated: when messages_flush returns, the aggregator holds no named
\* and no anonymous message, so the next render has none to draw.
C13_Original ==
    [][(pc["prod"] = "fl_unlock" /\ pc'["prod"] = "idle") =>
          (messages_named' = <<>> /\ messages_queue' = <<>>)]_vars

----------------------------------------------------------------------------
(* Claims about the grid's identifiers on /ui/message, checked under SpecParse *)

\* C14 as stated: once on_ui_request has returned for `<identifier>::5`, with
\* the identifier one of the grid's, the slot of that identifier holds 5 and
\* render's line for it reads `<identifier>: 5`.
C14_Original ==
    (pc["msg"] = "idle" /\ requests > 0) =>
        \A i \in DOMAIN GridNames :
            request = GridNames[i] \o <<":", ":", "5">> =>
                /\ GridNames[i] \in DOMAIN messages_named
                /\ messages_named[GridNames[i]] = <<"5">>
                /\ Line(messages_named, GridNames[i]) =
                      GridNames[i] \o <<":", " ", "5">>

----------------------------------------------------------------------------
(* Claims about the named-field layout, checked under SpecLayout *)

\* The step of render's named loop over a blank (None) entry.
BlankStep ==
    /\ layout' # layout
    /\ layout.structure[layout.i] = Blank

\* The step of render's named loop over an entry of one identifier.
SingleStep ==
    /\ layout' # layout
    /\ layout.structure[layout.i].kind = "name"

\* C15 as stated: a blank entry draws nothing and moves the cursor as an
\* entry of one identifier would at the same place, by 15 + 5 = 20 pixels.
C15_Original ==
    [][BlankStep =>
          /\ layout'.lines = layout.lines
          /\ layout'.y = Advance(<<tgt_x>>, layout.x, layout.y, layout.height).y
          /\ layout'.x = Advance(<<tgt_x>>, layout.x, layout.y, layout.height).x
      ]_vars

\* C15: a blank entry draws nothing and moves the vertical cursor by the
\* spacing of 5 pixels only, where an entry of one identifier draws one line
\* and moves it by 15 + 5 = 20; in both cases a cursor that would pass 90% of
\* the height goes to 5% of the height instead, one column to the right.
C15_BlankAdvancesFive ==
    [][/\ BlankStep =>
           /\ layout'.lines = layout.lines
           /\ IF layout.y + 5 > Bottom(layout.height)
              THEN /\ layout'.y = Top(layout.height)
                   /\ layout'.x = layout.x + 250
              ELSE /\ layout'.y = layout.y + 5
                   /\ layout'.x = layout.x
       /\ SingleStep =>
           /\ Len(layout'.lines) = Len(layout.lines) + 1
           /\ IF layout.y + 20 > Bottom(layout.height)
              THEN /\ layout'.y = Top(layout.height)
                   /\ layout'.x = layout.x + 250
              ELSE /\ layout'.y = layout.y + 20
                   /\ layout'.x = layout.x
      ]_vars

\* A blank entry, first of its structure, has been passed on a 360-pixel
\* image: nothing is drawn and the cursor stands 5 below the top margin.
C15_Witness ==
    /\ layout.i = 2
    /\ layout.structure[1] = Blank
    /\ layout.height = 360
    /\ layout.lines = <<>>
    /\ layout.y = Top(360) + 5

\* C19 as stated: no line of the named layout is drawn with the vertical
\* cursor beyond 90% of the image height.
C19_Original ==
    \A k \in DOMAIN layout.lines :
        layout.lines[k].y <= Bottom(layout.height)

\* C19: the wrap test is made once after each entry, never between the
\* lines of a group.  Every entry starts with the cursor between 5% and 90%
\* of the height, so its first line is drawn there; a line drawn beyond 90%
\* is a later line of a group, 15 below the line before it in the same
\* column; and a cursor that has passed 90% after an entry goes to 5% of the
\* height, one column (250) to the right.
C19_WrapAfterEntry ==
    /\ [](/\ layout.y >= Top(layout.height)
          /\ layout.y <= Bottom(layout.height)
          /\ \A k \in DOMAIN layout.lines :
                \/ layout.lines[k].y <= Bottom(layout.height)
                \/ /\ k > 1
                   /\ layout.lines[k - 1].x = layout.lines[k].x
                   /\ layout.lines[k - 1].y + 15 = layout.lines[k].y)
    /\ [][layout' # layout =>
            LET below == layout.y + 5 +
                           15 * Len(EntryNames(layout.structure[layout.i]))
            IN IF below > Bottom(layout.height)
               THEN /\ layout'.y = Top(layout.height)
                    /\ layout'.x = layout.x + 250
               ELSE /\ layout'.y = below
                    /\ layout'.x = layout.x
       ]_vars

\* A line of a group has been drawn beyond 90% of the image height, and
\* even below the image's lower edge.
C19_Witness ==
    \E k \in DOMAIN layout.lines :
        /\ layout.lines[k].y > Bottom(layout.height)
        /\ layout.lines[k].y > layout.height

----------------------------------------------------------------------------
(* Claims about the order of the queue, checked under SpecQueue *)

\* C16: in every reachable state the timestamps of the queue do not decrease
\* from front to back, and when clean_queue has made its last test (the loop
\* is left, the lock still held) no entry anywhere in the queue is older
\* than the display duration at the clock reading of that test.
C16_FrontPruningComplete ==
    /\ \A i, j \in DOMAIN messages_queue :
           i <= j => messages_queue[i][2] <= messages_queue[j][2]
    /\ pc["ui"] = "cq_unlock" =>
           \A i \in DOMAIN messages_queue :
               checked_at - messages_queue[i][2] <= Ttl

\* clean_queue leaves its loop having removed the older of two entries put
\* by different producers at different times.
C16_Witness ==
    /\ pc["ui"] = "cq_unlock"
    /\ Len(appended) = 2
    /\ appended[1][2] < appended[2][2]
    /\ appended[1][1] # appended[2][1]
    /\ messages_queue = <<appended[2]>>

\* The number of entries removed from the queue so far.
Removed == Len(appended) - Len(messages_queue)

\* C17: in every reachable state the queue is the sequence of anonymous
\* messages in the order of their appends, less its first Removed entries
\* (a contiguous suffix), and Removed never decreases: only the oldest
\* entry is ever removed and a removed entry does not come back.
C17_QueueIsSuffix ==
    /\ [](/\ Removed >= 0
          /\ messages_queue = SubSeq(appended, Removed + 1, Len(appended)))
    /\ [][Removed' >= Removed]_vars

\* One of three appended entries has been removed and two are queued.
C17_Witness ==
    /\ Len(appended) = 3
    /\ Removed = 1
    /\ messages_queue = <<appended[2], appended[3]>>

----------------------------------------------------------------------------
(* Claims about progress, checked under SpecLive *)

----------------------------------------------------------------------------
(* Claims about the one-shot keys, checked under SpecKeys *)

OneShotKeys == {"R", "T", "L", "H"}

\* The controller action of a one-shot key.
OneShotAction(key) ==
    CASE key = "R" -> "reset"
      [] key = "T" -> "takeoff"
      [] key = "L" -> "land"
      [] key = "H" -> "hover"

====
